---- MODULE Spec2Model ----
(***************************************************************************)
(* Model of the messaging core of SoramiBackend:                           *)
(*   - the direct-message HTTP controller (sendMessage, getChatHistory,    *)
(*     deleteMessage, markMessageAsRead, getUnreadCount) over the Message  *)
(*     and ChatSession collections;                                        *)
(*   - the two find-or-create variants for private chat sessions;          *)
(*   - the status methods of the rich Message schema;                      *)
(*   - the Socket.IO gateway (authentication middleware, presence maps,    *)
(*     rooms and client events);                                           *)
(*   - the Group model and the group controller (create, join, leave,      *)
(*     add and remove members, details);                                   *)
(*   - the HTTP authentication middleware of the protected routes.         *)
(* User ids are ObjectId strings of equal length; they are modelled as     *)
(* naturals whose numeric order is the lexicographic order of the strings. *)
(***************************************************************************)
EXTENDS Integers, Sequences, FiniteSets, TLC

VARIABLES
    messages,        \* Message collection (direct-message schema), in insertion (createdAt) order
    sessions,        \* ChatSession collection of models/ChatSession.js, in insertion order
    chatSessions,    \* ChatSession collection of the chatId-keyed schema (models/Group.js)
    reqs,            \* in-flight / completed calls, one record per slot
    resp,            \* the response written by the last single-step HTTP handler
    richMessages,    \* Message collection of the status-carrying schema
    sockets,         \* every socket that ever attempted a handshake, in connection order
    connectedUsers,  \* SocketServer.connectedUsers : userId -> socket id
    userSockets,     \* SocketServer.userSockets    : userId -> socket instance
    rooms,           \* Socket.IO room membership : set of <<room, socket>>
    handlers,        \* sockets on which the connection callback registered event handlers
    broadcasts,      \* user_status broadcasts emitted : set of <<socket that caused it, isOnline>>
    readReceipts,    \* message_read events received : <<socket, messageId, reader>> -> count
    sendAttempts,    \* per socket: send_message events the server has dispatched
    sendReplies,     \* per socket: message_sent / error events emitted back for them
    newMessages,     \* new_message events delivered : set of <<socket, messageId>>
    groups,          \* Group collection, in insertion order
    groupCalls,      \* in-flight group-controller calls, one record per slot
    groupResp,       \* the response written by the last group handler that answered
    authVariant,     \* which authMiddleware of the source tree the routes mount
    httpRequests,    \* requests to protected routes, as the middleware and the router left them
    following,       \* User.following : userId -> the ids the user follows, in array order
    followers,       \* User.followers : userId -> the ids following the user, in array order
    followCalls      \* in-flight follow / unfollow requests, one record per slot

chatVars   == <<messages, sessions, chatSessions, reqs, resp>>
statusVars == <<richMessages>>
socketVars == <<sockets, connectedUsers, userSockets, rooms, handlers, broadcasts,
                readReceipts, sendAttempts, sendReplies, newMessages>>
groupVars  == <<groups, groupCalls, groupResp>>
authVars   == <<authVariant, httpRequests>>
vars == <<messages, sessions, chatSessions, reqs, resp, richMessages, sockets,
          connectedUsers, userSockets, rooms, handlers, broadcasts, readReceipts,
          sendAttempts, sendReplies, newMessages, groups, groupCalls, groupResp,
          authVariant, httpRequests, following, followers, followCalls>>

(***************************************************************************)
(* Bounds                                                                  *)
(***************************************************************************)
MaxMsgs == 2          \* messages the direct-message store may hold
MaxBurst == 3         \* messages the store may hold after a burst of sends in one conversation
MaxInflight == 2      \* concurrently handled calls

(***************************************************************************)
(* Users and inputs                                                        *)
(***************************************************************************)
Users == {1, 2, 3}    \* ids of the documents in the User collection
NoUser == 0           \* null / undefined user id
GhostUser == 8        \* a well-formed ObjectId string that names no user
MalformedId == 9      \* a string that is not an ObjectId (findById throws a CastError)
ReceiverInputs == Users \cup {NoUser, GhostUser, MalformedId}

MaxContentLength == 1000

\* A request's content: whether it is a string, its length and its trimmed length.
NoContent    == [isString |-> FALSE, len |-> 0, trimLen |-> 0]
BlankContent == [isString |-> TRUE, len |-> 3, trimLen |-> 0]
HiContent    == [isString |-> TRUE, len |-> 2, trimLen |-> 2]
LongContent  == [isString |-> TRUE, len |-> MaxContentLength + 1, trimLen |-> MaxContentLength + 1]
ContentInputs == {NoContent, BlankContent, HiContent, LongContent}

MessageTypes == {"text", "image", "file"}
MessageTypeInputs == {"text", "audio"}

\* <<user1Id, user2Id>> arguments: one pair in both orders, and a pair that
\* shares a user with it.
PairInputs == {<<1, 2>>, <<2, 1>>, <<3, 1>>}

\* <<senderId, receiverId, content, messageType>> requests: the pairs with a
\* valid body, and for one sender the missing, unknown, malformed and own id as
\* receiver and every content and type.
SendInputs ==
    {<<p[1], p[2], HiContent, "text">> : p \in PairInputs}
        \cup {<<1, r, HiContent, "text">> : r \in ReceiverInputs}
        \cup {<<1, 2, c, t>> : c \in ContentInputs, t \in MessageTypeInputs}

Slots == 1..MaxInflight

\* The local session document a call holds before it has loaded one.
NoDoc == [participants |-> <<>>, unreadCount |-> <<>>, lastMessage |-> 0]

\* A call: the handler's arguments, its position (pc), the session document it
\* loaded (id and local copy), the message it created and the status it answered.
Call(op, user, peer, content, messageType, pc, status) ==
    [op |-> op, user |-> user, peer |-> peer, content |-> content,
     messageType |-> messageType, pc |-> pc, session |-> 0, doc |-> NoDoc,
     message |-> 0, status |-> status]

IdleReq == Call("idle", NoUser, NoUser, NoContent, "text", "idle", 0)

(***************************************************************************)
(* models/ChatSession.js                                                   *)
(***************************************************************************)
\* [user1Id, user2Id].sort() : Array.prototype.sort orders by string comparison.
SortPair(a, b) == IF b < a THEN <<b, a>> ELSE <<a, b>>

SessionIds == 1..Len(sessions)

\* this.findOne({ participants }) : exact array match.
FindOneSession(participants) ==
    IF \E s \in SessionIds : sessions[s].participants = participants
    THEN CHOOSE s \in SessionIds : sessions[s].participants = participants
    ELSE 0

\* The unique index on the array field `participants` is a multikey index: every
\* array element is a key, and no key may occur in two documents.
DuplicateParticipantKey(participants) ==
    \E s \in SessionIds :
        {sessions[s].participants[1], sessions[s].participants[2]}
            \cap {participants[1], participants[2]} # {}

\* new this({ participants, unreadCount: Map{user1:0, user2:0}, ... })
NewSession(participants) ==
    [participants |-> participants,
     unreadCount  |-> [u \in {participants[1], participants[2]} |-> 0],
     lastMessage  |-> 0]

\* session.getUnreadCount(userId) : this.unreadCount.get(userId) || 0
GetUnreadCount(session, userId) ==
    IF userId \in DOMAIN session.unreadCount THEN session.unreadCount[userId] ELSE 0

\* Map.set on a Mongoose map
MapSet(map, key, value) ==
    [k \in DOMAIN map \cup {key} |-> IF k = key THEN value ELSE map[k]]

\* The statement after `await ChatSession.findOrCreateSession(...)` in the caller.
AfterFindOrCreate(op) == IF op = "sendMessage" THEN "saveMessage" ELSE "done"

\* findOrCreateSession, first await: let session = await this.findOne({ participants })
FindOrCreateFind(i) ==
    /\ reqs[i].pc = "findOne"
    /\ LET participants == SortPair(reqs[i].user, reqs[i].peer)
           s == FindOneSession(participants)
           op == reqs[i].op
       IN  reqs' = [reqs EXCEPT ![i] =
                IF s # 0
                THEN [@ EXCEPT !.session = s, !.doc = sessions[s],
                               !.pc = AfterFindOrCreate(op),
                               !.status = IF op = "sendMessage" THEN 0 ELSE 200]
                ELSE [@ EXCEPT !.pc = "saveSession"]]
    /\ UNCHANGED <<messages, sessions, chatSessions, resp>>
    /\ UNCHANGED <<statusVars, socketVars, groupVars, authVars, following, followers, followCalls>>

\* findOrCreateSession, second await: session = new this({...}); await session.save()
\* The insert throws a duplicate-key error when the unique index rejects it; the
\* error propagates to the caller (sendMessage answers 500 from its catch block).
FindOrCreateSave(i) ==
    /\ reqs[i].pc = "saveSession"
    /\ LET participants == SortPair(reqs[i].user, reqs[i].peer)
           op == reqs[i].op
       IN  IF DuplicateParticipantKey(participants)
           THEN /\ reqs' = [reqs EXCEPT ![i] = [@ EXCEPT !.pc = "done", !.status = 500]]
                /\ UNCHANGED sessions
           ELSE /\ sessions' = Append(sessions, NewSession(participants))
                /\ reqs' = [reqs EXCEPT ![i] =
                       [@ EXCEPT !.session = Len(sessions) + 1,
                                 !.doc = NewSession(participants),
                                 !.pc = AfterFindOrCreate(op),
                                 !.status = IF op = "sendMessage" THEN 0 ELSE 200]]
    /\ UNCHANGED <<messages, chatSessions, resp>>
    /\ UNCHANGED <<statusVars, socketVars, groupVars, authVars, following, followers, followCalls>>

\* A direct call of the static method ChatSession.findOrCreateSession(user1Id, user2Id).
FindOrCreateSession(i, user1Id, user2Id) ==
    /\ reqs[i].op = "idle"
    /\ \A j \in Slots : j < i => reqs[j].op # "idle"
    /\ reqs' = [reqs EXCEPT ![i] =
            Call("findOrCreateSession", user1Id, user2Id, NoContent, "text", "findOne", 0)]
    /\ UNCHANGED <<messages, sessions, chatSessions, resp>>
    /\ UNCHANGED <<statusVars, socketVars, groupVars, authVars, following, followers, followCalls>>

\* The caller has consumed the result of a completed call.
Release(i) ==
    /\ reqs[i].pc = "done"
    /\ reqs' = [reqs EXCEPT ![i] = IdleReq]
    /\ UNCHANGED <<messages, sessions, chatSessions, resp>>
    /\ UNCHANGED <<statusVars, socketVars, groupVars, authVars, following, followers, followCalls>>

(***************************************************************************)
(* Direct-message controller                                               *)
(***************************************************************************)
MaxHistoryLimit == 100
\* The valid <<page, limit>> parameters of the history requests: everything,
\* and the second newest message alone.
ValidPages == {<<1, 50>>, <<2, 1>>}

\* <<currentUserId, targetUserId, page, limit>> requests: every caller and target
\* among the users with the valid pages, and for one caller an unknown and a
\* malformed target and out-of-range pages and limits.
HistoryInputs ==
    {<<u, t, q[1], q[2]>> : u \in Users, t \in Users, q \in ValidPages}
        \cup {<<1, GhostUser, 1, 50>>, <<1, MalformedId, 1, 50>>}
        \cup {<<1, 2, 0, 50>>, <<1, 2, 1, 0>>, <<1, 2, 1, MaxHistoryLimit + 1>>}

MessageIds == 1..Len(messages)
MessageIdInputs == 1..MaxMsgs

\* res.status(...).json(...) of a single-step handler: the handler, the status
\* and the number in the body (unreadCount, or pagination.total).
Response(op, status, count) == [op |-> op, status |-> status, count |-> count]

NoResponse == Response("none", 0, 0)

\* Calls that passed validation and have not yet stored their message.
PendingSends ==
    {i \in Slots : reqs[i].op = "sendMessage"
                     /\ reqs[i].pc \in {"findOne", "saveSession", "saveMessage"}}

\* The checks without the one for a message to oneself.
SendValidateNoSelfCheck(senderId, receiverId, content, messageType) ==
    IF ~content.isString \/ content.len = 0 \/ content.trimLen = 0 THEN 400
    ELSE IF content.len > MaxContentLength THEN 400
    ELSE IF receiverId = NoUser THEN 400
    ELSE IF messageType \notin MessageTypes THEN 400
    ELSE IF receiverId = MalformedId THEN 500
    ELSE IF receiverId \notin Users THEN 404
    ELSE 0

\* sendMessage, lines 12-37: the checks made before the session is looked up.
\* The result is the status of the error response, or 0 when every check passes.
SendValidate(senderId, receiverId, content, messageType) ==
    IF ~content.isString \/ content.len = 0 \/ content.trimLen = 0 THEN 400
    ELSE IF content.len > MaxContentLength THEN 400
    ELSE IF receiverId = NoUser THEN 400
    ELSE IF messageType \notin MessageTypes THEN 400
    ELSE IF receiverId = MalformedId THEN 500
    ELSE IF receiverId \notin Users THEN 404
    ELSE IF senderId = receiverId THEN 400
    ELSE 0

\* The request b, when it passes the checks, finds fewer than n messages stored
\* or about to be stored.
SendAllowed(b, n) ==
    SendValidate(b[1], b[2], b[3], b[4]) = 0
        => Len(messages) + Cardinality(PendingSends) < n

\* Calls take the lowest free slot (slots only name the concurrent calls).
FreeSlot(i) == reqs[i].op = "idle" /\ \A j \in Slots : j < i => reqs[j].op # "idle"

\* sendMessage up to `await ChatSession.findOrCreateSession(senderId, receiverId)`:
\* a request that fails a check is answered at once, the others go on to the
\* session lookup.
SendMessage(i, senderId, receiverId, content, messageType) ==
    /\ FreeSlot(i)
    /\ LET status == SendValidate(senderId, receiverId, content, messageType)
       IN  IF status # 0
           THEN /\ resp' = Response("sendMessage", status, 0)
                /\ UNCHANGED reqs
           ELSE /\ Len(messages) + Cardinality(PendingSends) < MaxBurst
                /\ reqs' = [reqs EXCEPT ![i] =
                        Call("sendMessage", senderId, receiverId, content, messageType,
                             "findOne", 0)]
                /\ UNCHANGED resp
    /\ UNCHANGED <<messages, sessions, chatSessions>>
    /\ UNCHANGED <<statusVars, socketVars, groupVars, authVars, following, followers, followCalls>>

\* new Message({ sender, receiver, content, messageType }); await message.save()
\* (the schema trims the content; isRead and deletedFor take their defaults).
SendSaveMessage(i) ==
    /\ reqs[i].op = "sendMessage"
    /\ reqs[i].pc = "saveMessage"
    /\ messages' = Append(messages,
            [sender |-> reqs[i].user, receiver |-> reqs[i].peer,
             content |-> reqs[i].content.trimLen, messageType |-> reqs[i].messageType,
             isRead |-> FALSE, deletedFor |-> <<>>])
    /\ reqs' = [reqs EXCEPT ![i] = [@ EXCEPT !.message = Len(messages) + 1,
                                             !.pc = "updateSession"]]
    /\ UNCHANGED <<sessions, chatSessions, resp>>
    /\ UNCHANGED <<statusVars, socketVars, groupVars, authVars, following, followers, followCalls>>

\* session.lastMessage = message._id; await session.incrementUnreadCount(receiverId);
\* await session.save(); res.status(201).  incrementUnreadCount reads the counter of
\* the call's own copy of the document, and save() writes the paths that copy
\* modified: lastMessage and unreadCount.<receiverId>.
SendUpdateSession(i) ==
    /\ reqs[i].op = "sendMessage"
    /\ reqs[i].pc = "updateSession"
    /\ LET s == reqs[i].session
           receiverId == reqs[i].peer
           count == GetUnreadCount(reqs[i].doc, receiverId) + 1
       IN  /\ sessions' = [sessions EXCEPT ![s] =
                    [@ EXCEPT !.lastMessage = reqs[i].message,
                              !.unreadCount = MapSet(@, receiverId, count)]]
           /\ reqs' = [reqs EXCEPT ![i] =
                    [@ EXCEPT !.doc = [@ EXCEPT !.lastMessage = reqs[i].message,
                                                !.unreadCount = MapSet(@, receiverId, count)],
                              !.pc = "done", !.status = 201]]
    /\ UNCHANGED <<messages, chatSessions, resp>>
    /\ UNCHANGED <<statusVars, socketVars, groupVars, authVars, following, followers, followCalls>>

\* Whether userId occurs in the array deletedFor.
Includes(array, userId) == \E k \in 1..Len(array) : array[k] = userId

\* The filter with `deletedFor: { $size: 0 }`: hides a message anyone deleted.
HistoryFilterAnyDeleted(m, currentUserId, targetUserId) ==
    /\ \/ messages[m].sender = currentUserId /\ messages[m].receiver = targetUserId
       \/ messages[m].sender = targetUserId /\ messages[m].receiver = currentUserId
    /\ Len(messages[m].deletedFor) = 0

\* The filter of getChatHistory's Message.find and countDocuments.
HistoryFilter(m, currentUserId, targetUserId) ==
    /\ \/ messages[m].sender = currentUserId /\ messages[m].receiver = targetUserId
       \/ messages[m].sender = targetUserId /\ messages[m].receiver = currentUserId
    /\ ~Includes(messages[m].deletedFor, currentUserId)

RECURSIVE Matching(_, _, _)
\* The ids of the messages 1..m that pass the filter, oldest first.
Matching(m, currentUserId, targetUserId) ==
    IF m = 0 THEN <<>>
    ELSE IF HistoryFilter(m, currentUserId, targetUserId)
         THEN Append(Matching(m - 1, currentUserId, targetUserId), m)
         ELSE Matching(m - 1, currentUserId, targetUserId)

Min(a, b) == IF a < b THEN a ELSE b

\* .sort({ createdAt: -1 }).skip(skip).limit(limit), then messages.reverse():
\* the page is cut from the newest end, and returned oldest first.
History(currentUserId, targetUserId, pageNum, limitNum) ==
    LET all == Matching(Len(messages), currentUserId, targetUserId)
        n == Len(all)
        skip == (pageNum - 1) * limitNum
        last == Min(skip + limitNum, n)
    IN  SubSeq(all, n - last + 1, n - skip)

\* ChatSession.findOne({ participants: { $all: [currentUserId, targetUserId] } })
FindSessionWithAll(currentUserId, targetUserId) ==
    LET has(s) == {currentUserId, targetUserId}
                      \subseteq {sessions[s].participants[1], sessions[s].participants[2]}
    IN  IF \E s \in SessionIds : has(s) THEN CHOOSE s \in SessionIds : has(s) ELSE 0

\* getChatHistory: validation, lookup of the target and the session, the page of
\* messages, then Message.updateMany (every unread message from the target to the
\* caller becomes read) and session.resetUnreadCount(currentUserId).
GetChatHistory(currentUserId, targetUserId, page, limit) ==
    LET s == FindSessionWithAll(currentUserId, targetUserId)
        respond(status, count) ==
            resp' = Response("getChatHistory", status, count)
    IN
    /\ IF page < 1 \/ limit < 1 \/ limit > MaxHistoryLimit
       THEN respond(400, 0) /\ UNCHANGED <<messages, sessions>>
       ELSE IF targetUserId = MalformedId
       THEN respond(500, 0) /\ UNCHANGED <<messages, sessions>>
       ELSE IF targetUserId \notin Users
       THEN respond(404, 0) /\ UNCHANGED <<messages, sessions>>
       ELSE IF s = 0
       THEN respond(200, 0) /\ UNCHANGED <<messages, sessions>>
       ELSE /\ respond(200, Len(Matching(Len(messages), currentUserId, targetUserId)))
            /\ messages' = [m \in MessageIds |->
                    IF /\ messages[m].sender = targetUserId
                       /\ messages[m].receiver = currentUserId
                       /\ ~messages[m].isRead
                    THEN [messages[m] EXCEPT !.isRead = TRUE]
                    ELSE messages[m]]
            /\ sessions' = [sessions EXCEPT ![s].unreadCount = MapSet(@, currentUserId, 0)]
    /\ UNCHANGED <<chatSessions, reqs>>
    /\ UNCHANGED <<statusVars, socketVars, groupVars, authVars, following, followers, followCalls>>

\* deleteMessage letting either participant of the conversation delete.
DeleteMessageByParticipant(currentUserId, messageId) ==
    /\ IF messageId \notin MessageIds
       THEN /\ resp' = Response("deleteMessage", 404, 0)
            /\ UNCHANGED messages
       ELSE IF /\ messages[messageId].sender # currentUserId
               /\ messages[messageId].receiver # currentUserId
       THEN /\ resp' = Response("deleteMessage", 403, 0)
            /\ UNCHANGED messages
       ELSE /\ resp' = Response("deleteMessage", 200, 0)
            /\ messages' =
                  IF ~Includes(messages[messageId].deletedFor, currentUserId)
                  THEN [messages EXCEPT ![messageId].deletedFor = Append(@, currentUserId)]
                  ELSE messages
    /\ UNCHANGED <<sessions, chatSessions, reqs>>
    /\ UNCHANGED <<statusVars, socketVars, groupVars, authVars, following, followers, followCalls>>

\* deleteMessage: 404 for an unknown message, 403 unless the caller sent it,
\* otherwise the caller is pushed onto deletedFor (once).
DeleteMessage(currentUserId, messageId) ==
    /\ IF messageId \notin MessageIds
       THEN /\ resp' = Response("deleteMessage", 404, 0)
            /\ UNCHANGED messages
       ELSE IF messages[messageId].sender # currentUserId
       THEN /\ resp' = Response("deleteMessage", 403, 0)
            /\ UNCHANGED messages
       ELSE /\ resp' = Response("deleteMessage", 200, 0)
            /\ messages' =
                  IF ~Includes(messages[messageId].deletedFor, currentUserId)
                  THEN [messages EXCEPT ![messageId].deletedFor = Append(@, currentUserId)]
                  ELSE messages
    /\ UNCHANGED <<sessions, chatSessions, reqs>>
    /\ UNCHANGED <<statusVars, socketVars, groupVars, authVars, following, followers, followCalls>>

\* markMessageAsRead: 404 for an unknown message, 403 unless the caller is the
\* receiver, otherwise message.isRead = true and the message is saved.
MarkMessageAsRead(currentUserId, messageId) ==
    /\ IF messageId \notin MessageIds
       THEN /\ resp' = Response("markMessageAsRead", 404, 0)
            /\ UNCHANGED messages
       ELSE IF messages[messageId].receiver # currentUserId
       THEN /\ resp' = Response("markMessageAsRead", 403, 0)
            /\ UNCHANGED messages
       ELSE /\ resp' = Response("markMessageAsRead", 200, 0)
            /\ messages' = [messages EXCEPT ![messageId].isRead = TRUE]
    /\ UNCHANGED <<sessions, chatSessions, reqs>>
    /\ UNCHANGED <<statusVars, socketVars, groupVars, authVars, following, followers, followCalls>>

RECURSIVE TotalUnread(_, _)
\* sessions.reduce((total, session) => total + session.getUnreadCount(userId), 0)
\* over the sessions 1..s whose participants contain userId.
TotalUnread(s, userId) ==
    IF s = 0 THEN 0
    ELSE TotalUnread(s - 1, userId)
         + IF userId \in {sessions[s].participants[1], sessions[s].participants[2]}
           THEN GetUnreadCount(sessions[s], userId)
           ELSE 0

\* getUnreadCount: res.json({ unreadCount: totalUnread })
GetUnreadCountTotal(currentUserId) ==
    /\ resp' = Response("getUnreadCount", 200,
                        TotalUnread(Len(sessions), currentUserId))
    /\ UNCHANGED <<messages, sessions, chatSessions, reqs>>
    /\ UNCHANGED <<statusVars, socketVars, groupVars, authVars, following, followers, followCalls>>

(***************************************************************************)
(* models/Group.js : ChatSession keyed by chatId                           *)
(***************************************************************************)
\* [user1Id, user2Id].sort().join('_') : ids have equal length, so the joined
\* string is determined by (and determines) the sorted pair.
\* The chat id without the sort: [user1Id, user2Id].join('_')
PrivateChatIdUnsorted(user1Id, user2Id) == <<user1Id, user2Id>>

PrivateChatId(user1Id, user2Id) == SortPair(user1Id, user2Id)

ChatSessionIds == 1..Len(chatSessions)

FindChatSession(chatId) ==
    IF \E s \in ChatSessionIds : chatSessions[s].chatId = chatId
    THEN CHOOSE s \in ChatSessionIds : chatSessions[s].chatId = chatId
    ELSE 0

\* The fields createPrivateSession's update document sets.
PrivateSessionUpdate(chatId, user1Id, user2Id) ==
    [chatType     |-> "private",
     chatId       |-> chatId,
     participants |-> <<[user |-> user1Id, role |-> "member"],
                        [user |-> user2Id, role |-> "member"]>>,
     createdBy    |-> user1Id]

\* createPrivateSession: findOneAndUpdate({ chatId }, {...}, { upsert: true, new: true }).
\* One atomic document operation: updates the document with that chatId, or
\* inserts it (unreadCounts and lastMessage take their defaults on insert and are
\* left alone on update).  The call resolves to the resulting document.
CreatePrivateSession(i, user1Id, user2Id) ==
    /\ reqs[i].op = "idle"
    /\ \A j \in Slots : j < i => reqs[j].op # "idle"
    /\ LET chatId == PrivateChatId(user1Id, user2Id)
           s == FindChatSession(chatId)
           upd == PrivateSessionUpdate(chatId, user1Id, user2Id)
           id == IF s # 0 THEN s ELSE Len(chatSessions) + 1
       IN  /\ chatSessions' =
                IF s # 0
                THEN [chatSessions EXCEPT ![s] =
                        [@ EXCEPT !.chatType = upd.chatType, !.chatId = upd.chatId,
                                  !.participants = upd.participants,
                                  !.createdBy = upd.createdBy]]
                ELSE Append(chatSessions,
                        [chatType |-> upd.chatType, chatId |-> upd.chatId,
                         participants |-> upd.participants, createdBy |-> upd.createdBy,
                         unreadCounts |-> <<>>, lastMessage |-> 0])
           /\ reqs' = [reqs EXCEPT ![i] =
                [Call("createPrivateSession", user1Id, user2Id, NoContent, "text", "done", 200)
                    EXCEPT !.session = id]]
    /\ UNCHANGED <<messages, sessions, resp>>
    /\ UNCHANGED <<statusVars, socketVars, groupVars, authVars, following, followers, followCalls>>

(***************************************************************************)
(* Message schema with a status field, readBy and deliveredTo              *)
(***************************************************************************)
MaxRichMsgs == 2      \* messages the status-carrying store may hold

Statuses == {"sending", "sent", "delivered", "read", "failed"}
NoGroup == 0
GroupInputs == {NoGroup, 1}
RichSenders == {1}
RichReceivers == {NoUser, 2}
Readers == {1, 2}

RichMessageIds == 1..Len(richMessages)

\* this.create({...}) : status takes its default; the pre-save hook rejects a
\* private message without a receiver and a group message without a group.
CreateRichMessage(chatType, sender, receiver, group) ==
    /\ Len(richMessages) < MaxRichMsgs
    /\ IF \/ chatType = "private" /\ receiver = NoUser
          \/ chatType = "group" /\ group = NoGroup
       THEN UNCHANGED richMessages
       ELSE richMessages' = Append(richMessages,
                [chatType |-> chatType, sender |-> sender, receiver |-> receiver,
                 group |-> group, status |-> "sending",
                 readBy |-> <<>>, deliveredTo |-> <<>>,
                 content |-> "created", edited |-> FALSE, deleted |-> FALSE])
    /\ UNCHANGED <<chatVars, socketVars, groupVars, authVars, following, followers, followCalls>>

\* messageSchema.statics.createPrivateMessage
CreatePrivateMessage(sender, receiver) ==
    CreateRichMessage("private", sender, receiver, NoGroup)

\* messageSchema.statics.createGroupMessage
CreateGroupMessage(sender, group) ==
    CreateRichMessage("group", sender, NoUser, group)

\* messageSchema.methods.markAsRead
MarkAsRead(m, userId) ==
    /\ m \in RichMessageIds
    /\ richMessages' = [richMessages EXCEPT ![m] =
            IF richMessages[m].chatType = "private"
            THEN [@ EXCEPT !.status = "read"]
            ELSE IF ~Includes(richMessages[m].readBy, userId)
                 THEN [@ EXCEPT !.readBy = Append(@, userId)]
                 ELSE @]
    /\ UNCHANGED <<chatVars, socketVars, groupVars, authVars, following, followers, followCalls>>

\* messageSchema.methods.markAsDelivered
MarkAsDelivered(m, userId) ==
    /\ m \in RichMessageIds
    /\ richMessages' = [richMessages EXCEPT ![m] =
            IF richMessages[m].chatType = "private"
            THEN [@ EXCEPT !.status = "delivered"]
            ELSE IF ~Includes(richMessages[m].deliveredTo, userId)
                 THEN [@ EXCEPT !.deliveredTo = Append(@, userId)]
                 ELSE @]
    /\ UNCHANGED <<chatVars, socketVars, groupVars, authVars, following, followers, followCalls>>

\* messageSchema.methods.updateStatus
UpdateStatus(m, status) ==
    /\ m \in RichMessageIds
    /\ richMessages' = [richMessages EXCEPT ![m].status = status]
    /\ UNCHANGED <<chatVars, socketVars, groupVars, authVars, following, followers, followCalls>>

\* The new contents editMessage is called with.

\* messageSchema.methods.editMessage: content, metadata.edited, save().
EditMessage(m, newContent) ==
    /\ m \in RichMessageIds
    /\ richMessages' = [richMessages EXCEPT ![m] =
            [@ EXCEPT !.content = newContent, !.edited = TRUE]]
    /\ UNCHANGED <<chatVars, socketVars, groupVars, authVars, following, followers, followCalls>>

\* messageSchema.methods.deleteMessage: metadata.deleted, save().
DeleteRichMessage(m) ==
    /\ m \in RichMessageIds
    /\ richMessages' = [richMessages EXCEPT ![m].deleted = TRUE]
    /\ UNCHANGED <<chatVars, socketVars, groupVars, authVars, following, followers, followCalls>>

(***************************************************************************)
(* utils/socketServer.js                                                   *)
(***************************************************************************)
MaxSockets == 3       \* handshakes attempted over the run
MaxReceipts == 2      \* message_read events counted per receiving socket, message and reader
MaxAttempts == 1      \* send_message events counted per socket

SocketUsers == {1, 2}

\* A handshake credential: socket.handshake.auth.token || headers.authorization.
\* `valid` is whether jwt.verify accepts it, userId the id in its payload.
NoToken == [present |-> FALSE, valid |-> FALSE, userId |-> NoUser]
BadToken == [present |-> TRUE, valid |-> FALSE, userId |-> NoUser]
TokenOf(u) == [present |-> TRUE, valid |-> TRUE, userId |-> u]
TokenInputs == {NoToken, BadToken} \cup {TokenOf(u) : u \in SocketUsers}

\* The room names clients ask for: `${chatType}_${chatId}`.
RoomInputs == {<<"private", 1>>}
ReadMessageInputs == {1}

\* The client events the connection callback registers a listener for.
HandledEvents == {"disconnect", "join_chat", "leave_chat", "typing_start",
                  "typing_stop", "mark_read"}

SocketIds == 1..Len(sockets)
Connected == {s \in SocketIds : sockets[s].state = "connected"}

MapDelete(map, key) == [k \in DOMAIN map \ {key} |-> map[k]]

\* A middleware that calls next() whatever the token, with a null user id when
\* the token is absent or fails verification.
AuthMiddlewarePassThrough(token) ==
    [ok |-> TRUE, userId |-> IF token.present /\ token.valid THEN token.userId ELSE NoUser]

\* The middleware of setupMiddleware: rejects a handshake without a token or
\* with a token jwt.verify throws on, otherwise sets socket.userId.
AuthMiddleware(token) ==
    IF ~token.present THEN [ok |-> FALSE, userId |-> NoUser]
    ELSE IF ~token.valid THEN [ok |-> FALSE, userId |-> NoUser]
    ELSE [ok |-> TRUE, userId |-> token.userId]

\* A handshake: the middleware, and on next() without error the connection
\* callback (presence maps, user_status broadcast, event listeners).
Connect(token) ==
    /\ Len(sockets) < MaxSockets
    /\ LET s == Len(sockets) + 1
           auth == AuthMiddleware(token)
       IN  IF ~auth.ok
           THEN /\ sockets' = Append(sockets,
                        [token |-> token, userId |-> NoUser, state |-> "rejected"])
                /\ UNCHANGED <<connectedUsers, userSockets, handlers, broadcasts>>
           ELSE /\ sockets' = Append(sockets,
                        [token |-> token, userId |-> auth.userId, state |-> "connected"])
                /\ connectedUsers' = MapSet(connectedUsers, auth.userId, s)
                /\ userSockets' = MapSet(userSockets, auth.userId, s)
                /\ broadcasts' = broadcasts \cup {<<s, TRUE>>}
                /\ handlers' = handlers \cup {s}
    /\ UNCHANGED <<rooms, readReceipts, sendAttempts, sendReplies, newMessages>>
    /\ UNCHANGED <<chatVars, statusVars, groupVars, authVars, following, followers, followCalls>>

\* socket.on('disconnect'): the maps drop the socket's user, whichever socket
\* they hold for that user; Socket.IO removes the socket from its rooms.
Disconnect(s) ==
    /\ s \in Connected
    /\ sockets' = [sockets EXCEPT ![s].state = "disconnected"]
    /\ rooms' = {r \in rooms : r[2] # s}
    /\ IF s \in handlers
       THEN /\ connectedUsers' = MapDelete(connectedUsers, sockets[s].userId)
            /\ userSockets' = MapDelete(userSockets, sockets[s].userId)
            /\ broadcasts' = broadcasts \cup {<<s, FALSE>>}
       ELSE UNCHANGED <<connectedUsers, userSockets, broadcasts>>
    /\ UNCHANGED <<handlers, readReceipts, sendAttempts, sendReplies, newMessages>>
    /\ UNCHANGED <<chatVars, statusVars, groupVars, authVars, following, followers, followCalls>>

\* socket.on('join_chat'): socket.join(roomName)
JoinChat(s, room) ==
    /\ s \in Connected \cap handlers
    /\ rooms' = rooms \cup {<<room, s>>}
    /\ UNCHANGED <<sockets, connectedUsers, userSockets, handlers, broadcasts,
                   readReceipts, sendAttempts, sendReplies, newMessages>>
    /\ UNCHANGED <<chatVars, statusVars, groupVars, authVars, following, followers, followCalls>>

\* socket.on('leave_chat'): socket.leave(roomName)
LeaveChat(s, room) ==
    /\ s \in Connected \cap handlers
    /\ rooms' = rooms \ {<<room, s>>}
    /\ UNCHANGED <<sockets, connectedUsers, userSockets, handlers, broadcasts,
                   readReceipts, sendAttempts, sendReplies, newMessages>>
    /\ UNCHANGED <<chatVars, statusVars, groupVars, authVars, following, followers, followCalls>>

ReceiptCount(key) == IF key \in DOMAIN readReceipts THEN readReceipts[key] ELSE 0

\* socket.on('mark_read'): socket.to(roomName).emit('message_read', {...}) reaches
\* every socket of the room except the emitting one.
MarkRead(s, messageId, room) ==
    /\ s \in Connected \cap handlers
    /\ LET receivers == {t \in Connected : <<room, t>> \in rooms /\ t # s}
           keys == {<<t, messageId, sockets[s].userId>> : t \in receivers}
       IN  /\ keys # {}
           /\ \A k \in keys : ReceiptCount(k) < MaxReceipts
           /\ readReceipts' = [k \in DOMAIN readReceipts \cup keys |->
                    IF k \in keys THEN ReceiptCount(k) + 1 ELSE readReceipts[k]]
    /\ UNCHANGED <<sockets, connectedUsers, userSockets, rooms, handlers, broadcasts,
                   sendAttempts, sendReplies, newMessages>>
    /\ UNCHANGED <<chatVars, statusVars, groupVars, authVars, following, followers, followCalls>>

\* A connected client emits 'send_message' (as the repository's test client and
\* example client do).  Socket.IO runs the listeners registered for the event
\* name; an event without a listener is discarded, and nothing is emitted back.
SendMessageEvent(s) ==
    /\ s \in Connected
    /\ sendAttempts[s] < MaxAttempts
    /\ sendAttempts' = [sendAttempts EXCEPT ![s] = @ + 1]
    /\ sendReplies' = IF s \in handlers /\ "send_message" \in HandledEvents
                      THEN [sendReplies EXCEPT ![s] = @ + 1]
                      ELSE sendReplies
    /\ UNCHANGED <<sockets, connectedUsers, userSockets, rooms, handlers, broadcasts,
                   readReceipts, newMessages>>
    /\ UNCHANGED <<chatVars, statusVars, groupVars, authVars, following, followers, followCalls>>

\* sendNewMessage(chatId, chatType, message): io.to(roomName).emit('new_message', ...)
\* reaches every socket of the room.  The result is the set of delivered events.
SendNewMessage(room, messageId) ==
    newMessages \cup {<<t, messageId>> : t \in {c \in Connected : <<room, c>> \in rooms}}

\* sendToUser(userId, event, data): the event goes to the socket connectedUsers
\* holds for the user, and nowhere when it holds none.
SendToUser(userId, messageId) ==
    IF userId \in DOMAIN connectedUsers
    THEN newMessages \cup {<<connectedUsers[userId], messageId>>}
    ELSE newMessages

(***************************************************************************)
(* models/Group.js : Group                                                 *)
(***************************************************************************)
DefaultMaxMembers == 1000
MinMaxMembers == 2
NoMaxMembers == 0     \* maxMembers absent from the request body

\* <<creatorId, name and description present, maxMembers, type>> of createGroup
\* requests: a request without a name, a capacity under the minimum, a public
\* group for two and a secret group with the default capacity.
CreateInputs == {<<1, FALSE, 2, "public">>, <<1, TRUE, 1, "public">>,
                 <<1, TRUE, 2, "public">>, <<1, TRUE, NoMaxMembers, "secret">>}
RoleInputs == {"member", "admin"}
\* <<adminId, userId, role>> of addGroupMember requests: the creator adds two
\* admins and an unknown user; the other users add each other as members.
AddInputs == {<<1, 2, "admin">>, <<1, 3, "admin">>, <<1, GhostUser, "member">>,
              <<2, 3, "member">>, <<3, 2, "member">>}

GroupIds == 1..Len(groups)
\* The group ids requests name; a group gets the next id when it is created.
GroupIdInputs == GroupInputs \ {NoGroup}

\* groupSchema.methods.isMember
IsMember(group, userId) ==
    \E k \in 1..Len(group.members) : group.members[k].user = userId

\* groupSchema.methods.isAdmin
IsAdmin(group, userId) == Includes(group.admins, userId) \/ group.creator = userId

\* groupSchema.methods.isCreator
IsCreator(group, userId) == group.creator = userId

\* A pre-save hook that only refreshes the stored member count.
PreSaveCountOnly(group) == [group EXCEPT !.memberCount = Len(group.members)]

\* groupSchema.pre('save'): the member count is taken first, then the creator is
\* pushed onto members (role 'creator') and onto admins when missing there.
PreSave(group) ==
    LET counted == [group EXCEPT !.memberCount = Len(group.members)]
        withCreator ==
            IF IsMember(counted, counted.creator)
            THEN counted
            ELSE [counted EXCEPT !.members =
                      Append(@, [user |-> counted.creator, role |-> "creator"])]
    IN  IF Includes(withCreator.admins, withCreator.creator)
        THEN withCreator
        ELSE [withCreator EXCEPT !.admins = Append(@, withCreator.creator)]

\* groupSchema.methods.addMember up to `return this.save()`: ok is FALSE when it
\* throws 'Group is full', otherwise doc is the document as save() leaves it.
AddMember(group, userId, role) ==
    IF Len(group.members) >= group.maxMembers
    THEN [ok |-> FALSE, doc |-> group]
    ELSE IF IsMember(group, userId)
    THEN [ok |-> TRUE, doc |-> PreSave(group)]
    ELSE [ok |-> TRUE,
          doc |-> PreSave([group EXCEPT
                      !.members = Append(@, [user |-> userId, role |-> role]),
                      !.admins = IF role = "admin" THEN Append(@, userId) ELSE @])]

\* groupSchema.methods.removeMember: both arrays are filtered, then save().
\* The method has no failing path.
RemoveMember(group, userId) ==
    PreSave([group EXCEPT
        !.members = SelectSeq(@, LAMBDA m : m.user # userId),
        !.admins = SelectSeq(@, LAMBDA a : a # userId)])

\* The role of the first member entry of userId (members.find).
MemberRole(group, userId) ==
    LET k == CHOOSE j \in 1..Len(group.members) :
                 /\ group.members[j].user = userId
                 /\ \A h \in 1..(j - 1) : group.members[h].user # userId
    IN  group.members[k].role

\* groupSchema.methods.updateMemberRole: the first entry of the member gets the
\* role; 'admin' adds the user to admins, any other role filters the user out.
UpdateMemberRole(group, userId, newRole) ==
    IF ~IsMember(group, userId)
    THEN PreSave(group)
    ELSE LET k == CHOOSE j \in 1..Len(group.members) :
                      /\ group.members[j].user = userId
                      /\ \A h \in 1..(j - 1) : group.members[h].user # userId
         IN  PreSave([group EXCEPT
                 !.members[k].role = newRole,
                 !.admins = IF newRole = "admin"
                            THEN IF Includes(@, userId) THEN @ ELSE Append(@, userId)
                            ELSE SelectSeq(@, LAMBDA a : a # userId)])

\* save() of a document whose arrays were only pushed to: the update is a $push
\* of the new elements (and a $set of stats.memberCount), applied to the stored
\* document whatever it has become since `before` was loaded.  A $push carries
\* no version condition.
SavePushed(stored, before, after) ==
    [stored EXCEPT
        !.members = @ \o SubSeq(after.members, Len(before.members) + 1, Len(after.members)),
        !.admins = @ \o SubSeq(after.admins, Len(before.admins) + 1, Len(after.admins)),
        !.memberCount = after.memberCount]

(***************************************************************************)
(* The chat session of a group (chatId-keyed schema)                       *)
(***************************************************************************)
GroupPrefix == 0
\* `group_${groupId}` : a key no private chat id equals.
GroupChatId(groupId) == <<GroupPrefix, groupId>>

\* chatSessionSchema.statics.createGroupSession: an upsert on chatId.
CreateGroupSession(groupId, creatorId, participants) ==
    LET chatId == GroupChatId(groupId)
        s == FindChatSession(chatId)
        parts == [k \in 1..Len(participants) |->
                    [user |-> participants[k],
                     role |-> IF participants[k] = creatorId THEN "creator" ELSE "member"]]
    IN  IF s # 0
        THEN [chatSessions EXCEPT ![s] =
                [@ EXCEPT !.chatType = "group", !.chatId = chatId,
                          !.participants = parts, !.createdBy = creatorId]]
        ELSE Append(chatSessions,
                [chatType |-> "group", chatId |-> chatId, participants |-> parts,
                 createdBy |-> creatorId, unreadCounts |-> <<>>, lastMessage |-> 0])

\* ChatSession.findOneAndUpdate({ chatId }, { $push: { participants: {...} } })
PushParticipant(groupId, userId, role) ==
    LET s == FindChatSession(GroupChatId(groupId))
    IN  IF s = 0 THEN chatSessions
        ELSE [chatSessions EXCEPT ![s].participants =
                  Append(@, [user |-> userId, role |-> role])]

\* A $pull whose condition matches no participant subdocument
\* ({ $pull: { participants: userId } }): the session is left as it is.
PullParticipantNoMatch(groupId, userId) == chatSessions

\* ChatSession.findOneAndUpdate({ chatId }, { $pull: { participants: { user } } })
PullParticipant(groupId, userId) ==
    LET s == FindChatSession(GroupChatId(groupId))
    IN  IF s = 0 THEN chatSessions
        ELSE [chatSessions EXCEPT ![s].participants =
                  SelectSeq(@, LAMBDA p : p.user # userId)]

(***************************************************************************)
(* Group controller                                                        *)
(***************************************************************************)
NoGroupDoc == [creator |-> NoUser, admins |-> <<>>, members |-> <<>>,
               maxMembers |-> 0, type |-> "public", memberCount |-> 0]

\* A group-controller call between its awaits: the handler, the requesting
\* user, the user and role it adds, the group, and the document it loaded.
GroupCall(op, user, target, role, group, pc, doc) ==
    [op |-> op, user |-> user, target |-> target, role |-> role,
     group |-> group, pc |-> pc, doc |-> doc]

IdleGroupCall == GroupCall("idle", NoUser, NoUser, "member", NoGroup, "idle", NoGroupDoc)

FreeGroupSlot(i) ==
    groupCalls[i].op = "idle" /\ \A j \in Slots : j < i => groupCalls[j].op # "idle"

\* res.status(...).json(...) of a group handler, or the outcome of a method
\* called on a group document (200 when its promise resolves, 500 when it throws).
GroupResponse(op, status) == [op |-> op, status |-> status]

NoGroupResponse == GroupResponse("none", 0)

\* createGroup: 400 without name or description; new Group({...}).save() with
\* maxMembers || 1000 (a capacity under the schema's minimum fails validation
\* and the catch block answers 500); then the group's chat session is created.
CreateGroup(creatorId, named, maxMembers, type) ==
    LET capacity == IF maxMembers = NoMaxMembers THEN DefaultMaxMembers ELSE maxMembers
        groupId == Len(groups) + 1
    IN
    /\ IF ~named
       THEN /\ groupResp' = GroupResponse("createGroup", 400)
            /\ UNCHANGED <<groups, chatSessions>>
       ELSE IF capacity < MinMaxMembers
       THEN /\ groupResp' = GroupResponse("createGroup", 500)
            /\ UNCHANGED <<groups, chatSessions>>
       ELSE /\ groupId \in GroupIdInputs
            /\ groups' = Append(groups,
                    PreSave([creator |-> creatorId, admins |-> <<creatorId>>,
                             members |-> <<>>, maxMembers |-> capacity,
                             type |-> type, memberCount |-> 0]))
            /\ chatSessions' = CreateGroupSession(groupId, creatorId, <<creatorId>>)
            /\ groupResp' = GroupResponse("createGroup", 201)
    /\ UNCHANGED <<messages, sessions, reqs, resp, groupCalls>>
    /\ UNCHANGED <<statusVars, socketVars, authVars, following, followers, followCalls>>

\* joinGroup up to `await group.addMember(userId, 'member')`: the group is
\* loaded and the checks run on the loaded document.
JoinGroup(i, userId, groupId) ==
    LET answer(status) ==
            /\ groupResp' = GroupResponse("joinGroup", status)
            /\ UNCHANGED groupCalls
    IN
    /\ FreeGroupSlot(i)
    /\ IF groupId \notin GroupIds THEN answer(404)
       ELSE IF IsMember(groups[groupId], userId) THEN answer(400)
       ELSE IF Len(groups[groupId].members) >= groups[groupId].maxMembers THEN answer(400)
       ELSE IF groups[groupId].type = "secret" THEN answer(403)
       ELSE /\ groupCalls' = [groupCalls EXCEPT ![i] =
                    GroupCall("joinGroup", userId, userId, "member", groupId,
                              "addMember", groups[groupId])]
            /\ UNCHANGED groupResp
    /\ UNCHANGED <<groups, chatVars>>
    /\ UNCHANGED <<statusVars, socketVars, authVars, following, followers, followCalls>>

\* addGroupMember up to `await group.addMember(userId, role)`: the group is
\* loaded, then the requester's permission, the user and the membership are
\* checked.
AddGroupMember(i, adminId, userId, role, groupId) ==
    LET answer(status) ==
            /\ groupResp' = GroupResponse("addGroupMember", status)
            /\ UNCHANGED groupCalls
    IN
    /\ FreeGroupSlot(i)
    /\ IF groupId \notin GroupIds THEN answer(404)
       ELSE IF ~IsAdmin(groups[groupId], adminId) THEN answer(403)
       ELSE IF userId \notin Users THEN answer(404)
       ELSE IF IsMember(groups[groupId], userId) THEN answer(400)
       ELSE /\ groupCalls' = [groupCalls EXCEPT ![i] =
                    GroupCall("addGroupMember", adminId, userId, role, groupId,
                              "addMember", groups[groupId])]
            /\ UNCHANGED groupResp
    /\ UNCHANGED <<groups, chatVars>>
    /\ UNCHANGED <<statusVars, socketVars, authVars, following, followers, followCalls>>

\* The rest of joinGroup and addGroupMember: group.addMember on the loaded
\* document (a throw is answered 500 by the catch block), the participant is
\* pushed onto the group's chat session, and the handler answers.
AddMemberSave(i) ==
    LET call == groupCalls[i]
        added == AddMember(call.doc, call.target, call.role)
    IN
    /\ call.pc = "addMember"
    /\ IF ~added.ok
       THEN /\ groupResp' = GroupResponse(call.op, 500)
            /\ UNCHANGED <<groups, chatSessions>>
       ELSE /\ groups' = [groups EXCEPT ![call.group] = SavePushed(@, call.doc, added.doc)]
            /\ chatSessions' = PushParticipant(call.group, call.target, call.role)
            /\ groupResp' = GroupResponse(call.op, 200)
    /\ groupCalls' = [groupCalls EXCEPT ![i] = IdleGroupCall]
    /\ UNCHANGED <<messages, sessions, reqs, resp>>
    /\ UNCHANGED <<statusVars, socketVars, authVars, following, followers, followCalls>>

\* leaveGroup: 404, 400 for a non-member, 400 for the creator, otherwise
\* group.removeMember(userId) and the participant is pulled from the session.
LeaveGroup(userId, groupId) ==
    LET answer(status) ==
            /\ groupResp' = GroupResponse("leaveGroup", status)
            /\ UNCHANGED <<groups, chatSessions>>
    IN
    /\ IF groupId \notin GroupIds THEN answer(404)
       ELSE IF ~IsMember(groups[groupId], userId) THEN answer(400)
       ELSE IF IsCreator(groups[groupId], userId) THEN answer(400)
       ELSE /\ groups' = [groups EXCEPT ![groupId] = RemoveMember(@, userId)]
            /\ chatSessions' = PullParticipant(groupId, userId)
            /\ groupResp' = GroupResponse("leaveGroup", 200)
    /\ UNCHANGED <<messages, sessions, reqs, resp, groupCalls>>
    /\ UNCHANGED <<statusVars, socketVars, authVars, following, followers, followCalls>>

\* removeGroupMember without the check that protects admins from other admins.
RemoveGroupMemberByAnyAdmin(adminId, userId, groupId) ==
    LET answer(status) ==
            /\ groupResp' = GroupResponse("removeGroupMember", status)
            /\ UNCHANGED <<groups, chatSessions>>
    IN
    /\ IF groupId \notin GroupIds THEN answer(404)
       ELSE IF ~IsAdmin(groups[groupId], adminId) THEN answer(403)
       ELSE IF ~IsMember(groups[groupId], userId) THEN answer(400)
       ELSE IF IsCreator(groups[groupId], userId) THEN answer(400)
       ELSE /\ groups' = [groups EXCEPT ![groupId] = RemoveMember(@, userId)]
            /\ chatSessions' = PullParticipant(groupId, userId)
            /\ groupResp' = GroupResponse("removeGroupMember", 200)
    /\ UNCHANGED <<messages, sessions, reqs, resp, groupCalls>>
    /\ UNCHANGED <<statusVars, socketVars, authVars, following, followers, followCalls>>

\* removeGroupMember: 404, 403 unless the requester is an admin, 400 for a
\* non-member, 400 for the creator, 403 for an admin unless the requester is
\* the creator, otherwise group.removeMember(userId) and the session pull.
RemoveGroupMember(adminId, userId, groupId) ==
    LET answer(status) ==
            /\ groupResp' = GroupResponse("removeGroupMember", status)
            /\ UNCHANGED <<groups, chatSessions>>
    IN
    /\ IF groupId \notin GroupIds THEN answer(404)
       ELSE IF ~IsAdmin(groups[groupId], adminId) THEN answer(403)
       ELSE IF ~IsMember(groups[groupId], userId) THEN answer(400)
       ELSE IF IsCreator(groups[groupId], userId) THEN answer(400)
       ELSE IF IsAdmin(groups[groupId], userId) /\ ~IsCreator(groups[groupId], adminId)
       THEN answer(403)
       ELSE /\ groups' = [groups EXCEPT ![groupId] = RemoveMember(@, userId)]
            /\ chatSessions' = PullParticipant(groupId, userId)
            /\ groupResp' = GroupResponse("removeGroupMember", 200)
    /\ UNCHANGED <<messages, sessions, reqs, resp, groupCalls>>
    /\ UNCHANGED <<statusVars, socketVars, authVars, following, followers, followCalls>>

\* getGroupDetails: 404 for an unknown group; for a member the handler calls
\* group.updateMemberRole(userId, <the member's current role>), which saves.
GetGroupDetails(userId, groupId) ==
    /\ IF groupId \notin GroupIds
       THEN /\ groupResp' = GroupResponse("getGroupDetails", 404)
            /\ UNCHANGED groups
       ELSE /\ groups' = IF IsMember(groups[groupId], userId)
                         THEN [groups EXCEPT ![groupId] =
                                  UpdateMemberRole(@, userId, MemberRole(@, userId))]
                         ELSE groups
            /\ groupResp' = GroupResponse("getGroupDetails", 200)
    /\ UNCHANGED <<chatVars, groupCalls>>
    /\ UNCHANGED <<statusVars, socketVars, authVars, following, followers, followCalls>>

\* group.addMember(userId, role) called on a loaded group document, outside any
\* request handler.
CallAddMember(groupId, userId, role) ==
    LET added == AddMember(groups[groupId], userId, role)
    IN
    /\ groupId \in GroupIds
    /\ groups' = IF added.ok THEN [groups EXCEPT ![groupId] = added.doc] ELSE groups
    /\ groupResp' = GroupResponse("addMember", IF added.ok THEN 200 ELSE 500)
    /\ UNCHANGED <<chatVars, groupCalls>>
    /\ UNCHANGED <<statusVars, socketVars, authVars, following, followers, followCalls>>

\* group.removeMember(userId) called on a loaded group document.
CallRemoveMember(groupId, userId) ==
    /\ groupId \in GroupIds
    /\ groups' = [groups EXCEPT ![groupId] = RemoveMember(@, userId)]
    /\ groupResp' = GroupResponse("removeMember", 200)
    /\ UNCHANGED <<chatVars, groupCalls>>
    /\ UNCHANGED <<statusVars, socketVars, authVars, following, followers, followCalls>>

\* group.updateMemberRole(userId, newRole) called on a loaded group document.
CallUpdateMemberRole(groupId, userId, newRole) ==
    /\ groupId \in GroupIds
    /\ groups' = [groups EXCEPT ![groupId] = UpdateMemberRole(@, userId, newRole)]
    /\ groupResp' = GroupResponse("updateMemberRole", 200)
    /\ UNCHANGED <<chatVars, groupCalls>>
    /\ UNCHANGED <<statusVars, socketVars, authVars, following, followers, followCalls>>

(***************************************************************************)
(* middleware/authMiddleware.js : the HTTP middleware of the protected     *)
(* routes.  The source tree holds four bodies for it.                      *)
(***************************************************************************)
MaxRequests == 2      \* requests to protected routes over the run

\* The Authorization header of a request: its scheme, what jwt.verify makes of
\* the token after 'Bearer ', and the payload's userId and username.
NoHeader == [header |-> "none", token |-> "none", userId |-> NoUser, username |-> FALSE]
BasicHeader == [header |-> "basic", token |-> "none", userId |-> NoUser, username |-> FALSE]
EmptyBearer == [header |-> "bearer", token |-> "empty", userId |-> NoUser, username |-> FALSE]
GarbageBearer == [header |-> "bearer", token |-> "garbage", userId |-> NoUser, username |-> FALSE]
ExpiredBearer(u) == [header |-> "bearer", token |-> "expired", userId |-> u, username |-> TRUE]
NamelessBearer(u) == [header |-> "bearer", token |-> "signed", userId |-> u, username |-> FALSE]
ValidBearer(u) == [header |-> "bearer", token |-> "signed", userId |-> u, username |-> TRUE]

\* The credentials without a token, with a malformed, an invalid or an expired one.
FailingCredentials == {NoHeader, BasicHeader, EmptyBearer, GarbageBearer, ExpiredBearer(1)}
CredentialInputs == FailingCredentials \cup {NamelessBearer(1), ValidBearer(1)}

AuthVariants == {"passThrough", "strict", "strictUser", "silent"}

\* What a middleware did with a request: the status of the response it sent
\* (0 when it sent none), whether it called next(), and the user id it left on
\* the request (NoUser for null or undefined).
AuthResult(status, next, userId) == [status |-> status, next |-> next, userId |-> userId]

\* jwt.verify(token, secret) throws on a token that is not a JWT signed with the
\* secret (JsonWebTokenError) and on an expired one (TokenExpiredError).
VerifyThrows(cred) == cred.token \in {"garbage", "expired"}

\* authMiddleware.js, lines 5-30: without a Bearer header or token req.userId is
\* null and next() is called; when jwt.verify throws, 403 is sent and the
\* function goes on to the next() after the try statement.
HttpAuthPassThrough(cred) ==
    IF cred.header # "bearer" THEN AuthResult(0, TRUE, NoUser)
    ELSE IF cred.token = "empty" THEN AuthResult(0, TRUE, NoUser)
    ELSE IF VerifyThrows(cred) THEN AuthResult(403, TRUE, NoUser)
    ELSE AuthResult(0, TRUE, cred.userId)

\* authMiddleware.js, lines 38-84: every failure returns a 401 response.
HttpAuthStrict(cred) ==
    IF cred.header # "bearer" THEN AuthResult(401, FALSE, NoUser)
    ELSE IF cred.token = "empty" THEN AuthResult(401, FALSE, NoUser)
    ELSE IF VerifyThrows(cred) THEN AuthResult(401, FALSE, NoUser)
    ELSE IF cred.userId = NoUser \/ ~cred.username THEN AuthResult(401, FALSE, NoUser)
    ELSE AuthResult(0, TRUE, cred.userId)

\* authMiddleware.js, lines 93-143: as the strict one, but the identity goes to
\* req.user = { userId, username } and req.userId stays undefined.
HttpAuthStrictUser(cred) ==
    IF HttpAuthStrict(cred).next
    THEN AuthResult(0, TRUE, NoUser)
    ELSE HttpAuthStrict(cred)

\* part_014, lines 74-99: every failure sets req.userId = null and calls next().
HttpAuthSilent(cred) ==
    IF cred.header # "bearer" THEN AuthResult(0, TRUE, NoUser)
    ELSE IF cred.token = "empty" THEN AuthResult(0, TRUE, NoUser)
    ELSE IF VerifyThrows(cred) THEN AuthResult(0, TRUE, NoUser)
    ELSE AuthResult(0, TRUE, cred.userId)

HttpAuth(variant, cred) ==
    CASE variant = "passThrough" -> HttpAuthPassThrough(cred)
      [] variant = "strict" -> HttpAuthStrict(cred)
      [] variant = "strictUser" -> HttpAuthStrictUser(cred)
      [] OTHER -> HttpAuthSilent(cred)

\* router.use(authMiddleware): the routes mount the middleware the build holds.
RouterUse(variant) ==
    /\ authVariant = "none"
    /\ authVariant' = variant
    /\ UNCHANGED httpRequests
    /\ UNCHANGED <<chatVars, statusVars, socketVars, groupVars, following, followers, followCalls>>

\* A request to a protected route: the middleware runs, and the route handler
\* runs when the middleware called next(), with the req.userId it was left.
HttpRequest(cred) ==
    /\ authVariant # "none"
    /\ Len(httpRequests) < MaxRequests
    /\ LET auth == HttpAuth(authVariant, cred)
       IN  httpRequests' = Append(httpRequests,
                [cred |-> cred, status |-> auth.status, handled |-> auth.next,
                 userId |-> auth.userId])
    /\ UNCHANGED authVariant
    /\ UNCHANGED <<chatVars, statusVars, socketVars, groupVars, following, followers, followCalls>>

(***************************************************************************)
(* routes/user.js : follow and unfollow                                    *)
(***************************************************************************)
\* A follow or unfollow request: its position, and the updates of its second
\* Promise.all that have not been applied yet.
FollowCall(op, userId, targetId, pc, pending, status) ==
    [op |-> op, user |-> userId, target |-> targetId, pc |-> pc,
     pending |-> pending, status |-> status]

\* router.post('/follow/:targetId') and router.post('/unfollow/:targetId') up to
\* the first await: 400 when the user names themself.
FollowRequest(i, op, userId, targetId) ==
    /\ followCalls[i].op = "idle"
    /\ \A j \in Slots : j < i => followCalls[j].op # "idle"
    /\ followCalls' = [followCalls EXCEPT ![i] =
            IF userId = targetId
            THEN FollowCall(op, userId, targetId, "done", {}, 400)
            ELSE FollowCall(op, userId, targetId, "load", {}, 0)]
    /\ UNCHANGED <<following, followers>>
    /\ UNCHANGED <<chatVars, statusVars, socketVars, groupVars, authVars>>

\* await Promise.all([User.findById(userId), User.findById(targetId)]) and the
\* checks on the loaded documents: 404 when either is missing, 400 when
\* user.following already holds (follow) or does not hold (unfollow) the target.
FollowLoad(i) ==
    /\ followCalls[i].pc = "load"
    /\ LET c == followCalls[i]
           isFollowing == Includes(following[c.user], c.target)
       IN  followCalls' = [followCalls EXCEPT ![i] =
                IF c.user \notin Users \/ c.target \notin Users
                THEN [c EXCEPT !.pc = "done", !.status = 404]
                ELSE IF (c.op = "follow") = isFollowing
                THEN [c EXCEPT !.pc = "done", !.status = 400]
                ELSE [c EXCEPT !.pc = "update", !.pending = {"following", "followers"}]]
    /\ UNCHANGED <<following, followers>>
    /\ UNCHANGED <<chatVars, statusVars, socketVars, groupVars, authVars>>

\* One of the two User.findByIdAndUpdate calls of the second Promise.all is
\* applied ($addToSet for follow, $pull for unfollow); the request answers 200
\* once both are.
FollowUpdate(i, field) ==
    /\ followCalls[i].pc = "update"
    /\ field \in followCalls[i].pending
    /\ LET c == followCalls[i]
           \* $addToSet and $pull on an array field
           AddToSet(array, id) == IF Includes(array, id) THEN array ELSE Append(array, id)
           Pull(array, id) == SelectSeq(array, LAMBDA x : x # id)
           apply(array, id) == IF c.op = "follow" THEN AddToSet(array, id) ELSE Pull(array, id)
           rest == c.pending \ {field}
       IN  /\ IF field = "following"
              THEN /\ following' = [following EXCEPT ![c.user] = apply(@, c.target)]
                   /\ UNCHANGED followers
              ELSE /\ followers' = [followers EXCEPT ![c.target] = apply(@, c.user)]
                   /\ UNCHANGED following
           /\ followCalls' = [followCalls EXCEPT ![i] =
                  IF rest = {}
                  THEN [c EXCEPT !.pending = rest, !.pc = "done", !.status = 200]
                  ELSE [c EXCEPT !.pending = rest]]
    /\ UNCHANGED <<chatVars, statusVars, socketVars, groupVars, authVars>>

\* The client has received the response of a completed request.
FollowRelease(i) ==
    /\ followCalls[i].pc = "done"
    /\ followCalls' = [followCalls EXCEPT ![i] = FollowCall("idle", NoUser, NoUser, "idle", {}, 0)]
    /\ UNCHANGED <<following, followers>>
    /\ UNCHANGED <<chatVars, statusVars, socketVars, groupVars, authVars>>

(***************************************************************************)
(* Specifications                                                          *)
(***************************************************************************)
Init ==
    /\ messages = <<>>
    /\ sessions = <<>>
    /\ chatSessions = <<>>
    /\ reqs = [i \in Slots |-> IdleReq]
    /\ resp = NoResponse
    /\ richMessages = <<>>
    /\ sockets = <<>>
    /\ connectedUsers = <<>>
    /\ userSockets = <<>>
    /\ rooms = {}
    /\ handlers = {}
    /\ broadcasts = {}
    /\ readReceipts = <<>>
    /\ sendAttempts = [s \in 1..MaxSockets |-> 0]
    /\ sendReplies = [s \in 1..MaxSockets |-> 0]
    /\ newMessages = {}
    /\ groups = <<>>
    /\ groupCalls = [i \in Slots |-> IdleGroupCall]
    /\ groupResp = NoGroupResponse
    /\ authVariant = "none"
    /\ httpRequests = <<>>
    /\ following = [u \in Users |-> <<>>]
    /\ followers = [u \in Users |-> <<>>]
    /\ followCalls = [i \in Slots |-> FollowCall("idle", NoUser, NoUser, "idle", {}, 0)]

\* No call is between two of its awaits.
Quiescent == \A i \in Slots : reqs[i].op = "idle"

\* The direct-message HTTP API serving one request at a time (concurrent sends
\* are the subject of SpecSend).
NextChat ==
    \/ \E b \in SendInputs :
            SendAllowed(b, MaxMsgs) /\ SendMessage(1, b[1], b[2], b[3], b[4])
    \/ FindOrCreateFind(1)
    \/ FindOrCreateSave(1)
    \/ SendSaveMessage(1)
    \/ SendUpdateSession(1)
    \/ Release(1)
    \/ Quiescent /\ \E q \in HistoryInputs : GetChatHistory(q[1], q[2], q[3], q[4])
    \/ Quiescent /\ \E u \in Users, m \in MessageIdInputs : DeleteMessage(u, m)
    \/ Quiescent /\ \E u \in Users, m \in MessageIdInputs : MarkMessageAsRead(u, m)
    \/ Quiescent /\ \E u \in Users : GetUnreadCountTotal(u)

SpecChat == Init /\ [][NextChat]_vars

\* Concurrent sendMessage requests, interleaved at their awaits.
NextSend ==
    \/ \E i \in Slots, b \in SendInputs :
            SendAllowed(b, MaxMsgs) /\ SendMessage(i, b[1], b[2], b[3], b[4])
    \/ \E i \in Slots : FindOrCreateFind(i)
    \/ \E i \in Slots : FindOrCreateSave(i)
    \/ \E i \in Slots : SendSaveMessage(i)
    \/ \E i \in Slots : SendUpdateSession(i)
    \/ \E i \in Slots : Release(i)

SpecSend == Init /\ [][NextSend]_vars

\* The two find-or-create operations for private sessions, called directly.
NextSession ==
    \/ \E i \in Slots, p \in PairInputs : FindOrCreateSession(i, p[1], p[2])
    \/ \E i \in Slots : FindOrCreateFind(i)
    \/ \E i \in Slots : FindOrCreateSave(i)
    \/ \E i \in Slots, p \in PairInputs : CreatePrivateSession(i, p[1], p[2])
    \/ \E i \in Slots : Release(i)

SpecSession == Init /\ [][NextSession]_vars

\* The methods of the status-carrying Message schema.
NextStatus ==
    \/ \E sender \in RichSenders, receiver \in RichReceivers :
            CreatePrivateMessage(sender, receiver)
    \/ \E sender \in RichSenders, group \in GroupInputs : CreateGroupMessage(sender, group)
    \/ \E m \in 1..MaxRichMsgs, u \in Readers : MarkAsRead(m, u)
    \/ \E m \in 1..MaxRichMsgs, u \in Readers : MarkAsDelivered(m, u)
    \/ \E m \in 1..MaxRichMsgs, status \in Statuses : UpdateStatus(m, status)

SpecStatus == Init /\ [][NextStatus]_vars

\* The Socket.IO gateway: handshakes, presence and the send path.
NextSocket ==
    \/ \E token \in TokenInputs : Connect(token)
    \/ \E s \in 1..MaxSockets : Disconnect(s)
    \/ \E s \in 1..MaxSockets : SendMessageEvent(s)

SpecSocket == Init /\ [][NextSocket]_vars

\* The Socket.IO gateway: rooms and read receipts.
NextRoom ==
    \/ \E token \in TokenInputs : Connect(token)
    \/ \E s \in 1..MaxSockets : Disconnect(s)
    \/ \E s \in 1..MaxSockets, room \in RoomInputs : JoinChat(s, room)
    \/ \E s \in 1..MaxSockets, room \in RoomInputs : LeaveChat(s, room)
    \/ \E s \in 1..MaxSockets, m \in ReadMessageInputs, room \in RoomInputs :
            MarkRead(s, m, room)

SpecRoom == Init /\ [][NextRoom]_vars

\* No group-controller call is between two of its awaits.
GroupQuiescent == \A i \in Slots : groupCalls[i].op = "idle"

\* The group controller's requests.  Joins and additions interleave with each
\* other at their awaits; the other requests are served between them.
NextGroup ==
    \/ \E b \in CreateInputs : CreateGroup(b[1], b[2], b[3], b[4])
    \/ \E i \in Slots, u \in Users, g \in GroupIdInputs : JoinGroup(i, u, g)
    \/ \E i \in Slots, b \in AddInputs, g \in GroupIdInputs :
            AddGroupMember(i, b[1], b[2], b[3], g)
    \/ \E i \in Slots : AddMemberSave(i)
    \/ GroupQuiescent /\ \E u \in Users, g \in GroupIdInputs : LeaveGroup(u, g)
    \/ GroupQuiescent /\ \E a \in Users, u \in Users, g \in GroupIdInputs :
            RemoveGroupMember(a, u, g)
    \/ GroupQuiescent /\ \E u \in Users, g \in GroupIdInputs : GetGroupDetails(u, g)

SpecGroup == Init /\ [][NextGroup]_vars

\* The membership methods of a group document, called in any order.
NextGroupModel ==
    \/ \E b \in CreateInputs : CreateGroup(b[1], b[2], b[3], b[4])
    \/ \E u \in Users, r \in RoleInputs, g \in GroupIdInputs : CallAddMember(g, u, r)
    \/ \E u \in Users, g \in GroupIdInputs : CallRemoveMember(g, u)
    \/ \E u \in Users, r \in RoleInputs, g \in GroupIdInputs : CallUpdateMemberRole(g, u, r)

SpecGroupModel == Init /\ [][NextGroupModel]_vars

\* <<senderId, receiverId, content, messageType>> of the messages two socket
\* users send each other.
DeliverInputs == {<<1, 2, HiContent, "text">>, <<2, 1, HiContent, "text">>}

\* The send request served while clients connect to and disconnect from the
\* Socket.IO gateway of the same process.
NextDeliver ==
    \/ \E token \in TokenInputs : Connect(token)
    \/ \E s \in 1..MaxSockets : Disconnect(s)
    \/ \E b \in DeliverInputs :
            SendAllowed(b, MaxMsgs) /\ SendMessage(1, b[1], b[2], b[3], b[4])
    \/ FindOrCreateFind(1)
    \/ FindOrCreateSave(1)
    \/ SendSaveMessage(1)
    \/ SendUpdateSession(1)
    \/ Release(1)

SpecDeliver == Init /\ [][NextDeliver]_vars

\* Requests to the protected routes of a server built with any of the
\* middleware bodies.
NextAuth ==
    \/ \E variant \in AuthVariants : RouterUse(variant)
    \/ \E cred \in CredentialInputs : HttpRequest(cred)

SpecAuth == Init /\ [][NextAuth]_vars

\* <<senderId, receiverId, content, messageType>> of the messages of one
\* conversation.
BurstInputs == {<<1, 2, HiContent, "text">>}

\* A burst of sends in one conversation, interleaved at their awaits, with the
\* receiver reading the history between them.
NextBurst ==
    \/ \E i \in Slots, b \in BurstInputs : SendMessage(i, b[1], b[2], b[3], b[4])
    \/ \E i \in Slots : FindOrCreateFind(i)
    \/ \E i \in Slots : FindOrCreateSave(i)
    \/ \E i \in Slots : SendSaveMessage(i)
    \/ \E i \in Slots : SendUpdateSession(i)
    \/ \E i \in Slots : Release(i)
    \/ \E b \in BurstInputs : GetChatHistory(b[2], b[1], 1, 50)

SpecBurst == Init /\ [][NextBurst]_vars


\* Two sends issued one after the other in one conversation, the second before
\* the first has completed: the calls take slot 1 and slot 2 in issue order and
\* no slot is reused.  The receiver reads the history at any time.
NextOrder ==
    \/ \E i \in Slots, b \in BurstInputs : SendMessage(i, b[1], b[2], b[3], b[4])
    \/ \E i \in Slots : FindOrCreateFind(i)
    \/ \E i \in Slots : FindOrCreateSave(i)
    \/ \E i \in Slots : SendSaveMessage(i)
    \/ \E i \in Slots : SendUpdateSession(i)
    \/ \E b \in BurstInputs, q \in ValidPages : GetChatHistory(b[2], b[1], q[1], q[2])

SpecOrder == Init /\ [][NextOrder]_vars


\* The edit and delete methods of the status-carrying Message schema.
NextEdit ==
    \/ \E sender \in RichSenders, receiver \in RichReceivers :
            CreatePrivateMessage(sender, receiver)
    \/ \E sender \in RichSenders, group \in GroupInputs : CreateGroupMessage(sender, group)
    \/ \E m \in 1..MaxRichMsgs, c \in {"edited", "edited again"} : EditMessage(m, c)
    \/ \E m \in 1..MaxRichMsgs : DeleteRichMessage(m)

SpecEdit == Init /\ [][NextEdit]_vars


\* The group controller's requests served one at a time: any admin adds any
\* user with any role.
NextGroupSeq ==
    \/ \E b \in CreateInputs : CreateGroup(b[1], b[2], b[3], b[4])
    \/ GroupQuiescent /\ \E u \in Users, g \in GroupIdInputs : JoinGroup(1, u, g)
    \/ GroupQuiescent /\ \E a \in Users, u \in Users \cup {GhostUser},
                            r \in RoleInputs, g \in GroupIdInputs :
            AddGroupMember(1, a, u, r, g)
    \/ AddMemberSave(1)
    \/ GroupQuiescent /\ \E u \in Users, g \in GroupIdInputs : LeaveGroup(u, g)
    \/ GroupQuiescent /\ \E a \in Users, u \in Users, g \in GroupIdInputs :
            RemoveGroupMember(a, u, g)
    \/ GroupQuiescent /\ \E u \in Users, g \in GroupIdInputs : GetGroupDetails(u, g)

SpecGroupSeq == Init /\ [][NextGroupSeq]_vars


\* Follow and unfollow requests, interleaved at their awaits.
NextFollow ==
    \* <<userId, targetId>> of the requests: two users following each other, a
    \* user naming themself and a target that is no user.
    \/ \E i \in Slots, op \in {"follow", "unfollow"},
          b \in {<<1, 2>>, <<2, 1>>, <<1, 1>>, <<1, GhostUser>>} :
            FollowRequest(i, op, b[1], b[2])
    \/ \E i \in Slots : FollowLoad(i)
    \/ \E i \in Slots, field \in {"following", "followers"} : FollowUpdate(i, field)
    \/ \E i \in Slots : FollowRelease(i)

SpecFollow == Init /\ [][NextFollow]_vars

(***************************************************************************)
(* Properties                                                              *)
(***************************************************************************)
InSeq(x, seq) == \E k \in 1..Len(seq) : seq[k] = x

Resolved(i) == reqs[i].pc = "done" /\ reqs[i].status = 200

\* Two completed calls of the same find-or-create operation with swapped arguments.
Swapped(i, j) ==
    /\ i # j
    /\ reqs[i].op = reqs[j].op
    /\ reqs[i].op \in {"findOrCreateSession", "createPrivateSession"}
    /\ reqs[i].user = reqs[j].peer
    /\ reqs[i].peer = reqs[j].user

\* C1: private-session lookup is order-independent: whenever find-or-create has
\* resolved for (A,B) and for (B,A), after any earlier calls, the two calls
\* resolved to the same session record.
C1_OrderIndependent ==
    \A i \in Slots, j \in Slots :
        (Swapped(i, j) /\ Resolved(i) /\ Resolved(j))
            => reqs[i].session = reqs[j].session

\* C1 witness: calls as (A,B) and as (B,A) have both resolved, to one record.
C1_Witness ==
    \E i \in Slots, j \in Slots :
        /\ Swapped(i, j) /\ Resolved(i) /\ Resolved(j)
        /\ reqs[i].session # 0
        /\ reqs[i].session = reqs[j].session

\* C2: concurrent first contact: when A's send to B and B's send to A have both
\* completed and no session of another pair exists, both sends succeeded
\* against the one session of {A,B}.
C2_ConcurrentFirstContact ==
    \A i \in Slots, j \in Slots :
        (/\ i # j
         /\ reqs[i].op = "sendMessage" /\ reqs[j].op = "sendMessage"
         /\ reqs[i].pc = "done" /\ reqs[j].pc = "done"
         /\ reqs[i].user = reqs[j].peer /\ reqs[i].peer = reqs[j].user
         /\ \A s \in SessionIds :
                sessions[s].participants = SortPair(reqs[i].user, reqs[i].peer))
        => /\ reqs[i].status = 201 /\ reqs[j].status = 201
           /\ Len(sessions) = 1
           /\ reqs[i].session = reqs[j].session

\* The order sending < sent < delivered < read of the message lifecycle.
OrderedStatuses == {"sending", "sent", "delivered", "read"}
StatusRank(status) ==
    CASE status = "sending" -> 0
      [] status = "sent" -> 1
      [] status = "delivered" -> 2
      [] status = "read" -> 3
      [] OTHER -> 0

\* C3: message status never regresses: no step moves a message from a status of
\* the order sending < sent < delivered < read to a lower one.
C3_StatusNeverRegresses ==
    [][\A m \in RichMessageIds :
          (richMessages[m].status \in OrderedStatuses
             /\ richMessages'[m].status \in OrderedStatuses)
          => StatusRank(richMessages'[m].status) >= StatusRank(richMessages[m].status)]_vars

\* C4: soft delete is per viewer: a delete call by X leaves every page of every
\* other user's history as it was, and when it succeeds the message is in no
\* page of X's own history.  (A history is a function of the message store, so
\* only the delete calls that change the store need to be compared.)
C4_SoftDeletePerViewer ==
    [][messages' # messages =>
         \A x \in Users, m \in MessageIdInputs :
            DeleteMessage(x, m) =>
              /\ \A y \in Users \ {x}, t \in Users, q \in ValidPages :
                    History(y, t, q[1], q[2])' = History(y, t, q[1], q[2])
              /\ \A t \in Users, q \in ValidPages :
                    ~InSeq(m, History(x, t, q[1], q[2])')]_vars

\* C4 witness: a message its sender X has deleted is still in the receiver Y's
\* history and no longer in X's.
C4_Witness ==
    \E m \in MessageIds :
        /\ Includes(messages[m].deletedFor, messages[m].sender)
        /\ InSeq(m, History(messages[m].receiver, messages[m].sender, 1, 50))
        /\ ~InSeq(m, History(messages[m].sender, messages[m].receiver, 1, 50))

\* C5: only the original sender may soft-delete: a delete request for an
\* existing message by any other user is answered 403 and leaves the message
\* store, and so every deleted-for set, unchanged.
C5_OnlySenderDeletes ==
    [][\A u \in Users, m \in MessageIds :
          (DeleteMessage(u, m) /\ messages[m].sender # u)
            => (resp'.status = 403 /\ messages' = messages)]_vars

\* C5 witness: a delete request was refused while a message nobody has deleted
\* is in both participants' histories.
C5_Witness ==
    /\ resp.op = "deleteMessage"
    /\ resp.status = 403
    /\ \E m \in MessageIds :
          /\ Len(messages[m].deletedFor) = 0
          /\ InSeq(m, History(messages[m].receiver, messages[m].sender, 1, 50))
          /\ InSeq(m, History(messages[m].sender, messages[m].receiver, 1, 50))

\* The stored messages addressed to u that are not marked read.
UnreadMessagesFor(u) ==
    Cardinality({m \in MessageIds : messages[m].receiver = u /\ ~messages[m].isRead})

\* C6: the unread cache matches ground truth: whenever no call is in progress,
\* the total the unread-count operation computes for a user (the sum of the
\* user's per-session counters) is the number of unread messages addressed to
\* that user.
C6_UnreadCacheMatches ==
    Quiescent =>
        \A u \in Users : TotalUnread(Len(sessions), u) = UnreadMessagesFor(u)

\* C7: marking a message read twice does not fire a second receipt: no socket
\* receives message_read more than once for the same message and reader.
C7_SingleReadReceipt ==
    \A k \in DOMAIN readReceipts : readReceipts[k] <= 1

\* The sockets whose handshake was accepted for user u.
SocketsOf(u) == {s \in SocketIds : sockets[s].state # "rejected" /\ sockets[s].userId = u}
LatestSocketOf(u) == CHOOSE s \in SocketsOf(u) : \A t \in SocketsOf(u) : t <= s

\* C8: presence is last-connect-wins with a stale-disconnect guard: while the
\* socket a user connected with last is still connected, the user is online
\* and resolves to that socket, whatever earlier sockets of the user did.
C8_LastConnectWins ==
    \A u \in SocketUsers :
        (SocketsOf(u) # {} /\ sockets[LatestSocketOf(u)].state = "connected")
            => /\ u \in DOMAIN connectedUsers
               /\ connectedUsers[u] = LatestSocketOf(u)
               /\ u \in DOMAIN userSockets
               /\ userSockets[u] = LatestSocketOf(u)

\* C9: an unauthenticated socket never becomes authenticated: a socket whose
\* handshake had no token, or a token that fails verification, is rejected, is
\* in neither presence map, has no event handlers and caused no broadcast.
C9_UnauthenticatedRejected ==
    \A s \in SocketIds :
        (~sockets[s].token.present \/ ~sockets[s].token.valid)
            => /\ sockets[s].state = "rejected"
               /\ \A u \in DOMAIN connectedUsers : connectedUsers[u] # s
               /\ \A u \in DOMAIN userSockets : userSockets[u] # s
               /\ s \notin handlers
               /\ <<s, TRUE>> \notin broadcasts /\ <<s, FALSE>> \notin broadcasts

\* C9 witness: a handshake without a token and one with a bad token have both
\* been rejected while an authenticated socket is registered.
C9_Witness ==
    /\ \E s \in SocketIds : sockets[s].token = NoToken /\ sockets[s].state = "rejected"
    /\ \E s \in SocketIds : sockets[s].token = BadToken /\ sockets[s].state = "rejected"
    /\ \E s \in SocketIds : sockets[s].state = "connected" /\ s \in handlers

\* C10: no silent drop on the send path: every send_message event the gateway
\* has processed was answered to its sender with an acknowledgement or an error.
C10_NoSilentDrop ==
    \A s \in 1..MaxSockets : sendReplies[s] = sendAttempts[s]

\* A send request the contract rejects: content that is missing, empty or longer
\* than the limit, an unrecognized kind, a receiver that is no user, or the
\* sender as receiver.
Rejectable(b) ==
    \/ ~b[3].isString \/ b[3].len = 0 \/ b[3].trimLen = 0
    \/ b[3].len > MaxContentLength
    \/ b[4] \notin MessageTypes
    \/ b[2] \notin Users
    \/ b[2] = b[1]

\* C11: a rejected send changes nothing: a send request with empty or over-long
\* content, an unrecognized kind, a receiver that does not exist or the sender as
\* receiver is answered with an error status, and stores no message, creates or
\* modifies no session and starts no storage call.  (A send request either
\* writes a response or occupies a free slot, so only such steps are compared.)
C11_RejectedSendChangesNothing ==
    [][(resp' # resp \/ \E i \in Slots : reqs[i].op = "idle" /\ reqs'[i].op # "idle") =>
         \A i \in Slots, b \in SendInputs :
            (Rejectable(b) /\ SendMessage(i, b[1], b[2], b[3], b[4]))
              => /\ resp'.op = "sendMessage"
                 /\ resp'.status \in {400, 404, 500}
                 /\ messages' = messages
                 /\ sessions' = sessions
                 /\ reqs' = reqs]_vars

\* C11 witness: a send to an unknown receiver was answered 404 while a stored
\* message and its session exist and another send is between its storage calls.
C11_Witness ==
    /\ resp.op = "sendMessage"
    /\ resp.status = 404
    /\ Len(messages) = 1
    /\ Len(sessions) = 1
    /\ \E i \in Slots : reqs[i].pc = "saveMessage"

\* C12: group capacity is never exceeded: every stored group has at most
\* maxMembers entries in its member list, whatever creates, joins and additions
\* have run and however they interleaved.
C12_CapacityNeverExceeded ==
    \A g \in GroupIds : Len(groups[g].members) <= groups[g].maxMembers

\* C13: the creator is always a member and always an admin: in every saved
\* state of a group the creator is in the member list and in the admin set.
C13_CreatorMemberAndAdmin ==
    \A g \in GroupIds :
        /\ IsMember(groups[g], groups[g].creator)
        /\ Includes(groups[g].admins, groups[g].creator)

\* C13 witness: removeMember was called on a group that has another member and
\* the group still lists its creator as member and admin.
C13_Witness ==
    /\ groupResp.op = "removeMember"
    /\ \E g \in GroupIds :
          /\ Len(groups[g].members) >= 2
          /\ IsMember(groups[g], groups[g].creator)
          /\ Includes(groups[g].admins, groups[g].creator)

\* C14: removing the creator is forbidden: removeMember with the creator's id,
\* reached through leave, through remove-member or called on the group, is
\* answered with an error and leaves the member list and the admin set as
\* they were.
C14_CreatorRemovalForbidden ==
    [][\A g \in GroupIds :
          LET creator == groups[g].creator
          IN  (\/ CallRemoveMember(g, creator)
               \/ LeaveGroup(creator, g)
               \/ \E a \in Users : RemoveGroupMember(a, creator, g))
                => /\ groupResp'.status >= 400
                   /\ groups'[g].members = groups[g].members
                   /\ groups'[g].admins = groups[g].admins]_vars

\* The admins other than `actor` are still admins and members after the step.
OtherAdminsKept(g, actor) ==
    \A b \in Users \ {actor} :
        Includes(groups[g].admins, b)
            => Includes(groups'[g].admins, b) /\ IsMember(groups'[g], b)

\* C15: only the creator may demote or remove other admins: a request of a
\* user who is not the creator never takes another admin out of the admin set
\* or the member list.
C15_OnlyCreatorRemovesAdmins ==
    [][groups' # groups =>
         \A g \in GroupIds : \A a \in Users \ {groups[g].creator} :
            (\/ \E u \in Users : RemoveGroupMember(a, u, g)
             \/ LeaveGroup(a, g)
             \/ GetGroupDetails(a, g)
             \/ \E i \in Slots : groupCalls[i].user = a /\ AddMemberSave(i))
                => OtherAdminsKept(g, a)]_vars

\* C15 witness: a remove-member request was refused with 403 while the group
\* has two admins besides its creator.
C15_Witness ==
    /\ groupResp = GroupResponse("removeGroupMember", 403)
    /\ \E g \in GroupIds :
          Cardinality({b \in Users \ {groups[g].creator} : Includes(groups[g].admins, b)}) = 2

\* C16: when a send to a receiver who holds a registered connection is answered
\* with 201, the receiver's connection has received new_message for the stored
\* message, and the receiver's unread counter for the session is at least 1.
C16_DeliveredToConnected ==
    [][(/\ reqs[1].op = "sendMessage"
        /\ reqs[1].pc = "updateSession"
        /\ reqs'[1].pc = "done"
        /\ reqs'[1].status = 201
        /\ reqs[1].peer \in DOMAIN connectedUsers)
          => /\ <<connectedUsers[reqs[1].peer], reqs[1].message>> \in newMessages'
             /\ GetUnreadCount(sessions'[reqs[1].session], reqs[1].peer) >= 1]_vars

\* C17: a message sent to a user without a connection stays unread until that
\* user marks it read: a getChatHistory request lists it and leaves every unread
\* counter as it was.
C17_HistoryKeepsUnread ==
    [][sessions' # sessions =>
        \A q \in HistoryInputs :
            GetChatHistory(q[1], q[2], q[3], q[4]) =>
                \A s \in SessionIds : \A u \in Users :
                    GetUnreadCount(sessions'[s], u) = GetUnreadCount(sessions[s], u)]_vars

\* C18: a request to a protected route without a token, or with a malformed,
\* invalid or expired one, has been answered with an error response and has not
\* reached the route handler.
C18_AuthFailureTerminates ==
    \A r \in 1..Len(httpRequests) :
        httpRequests[r].cred \in FailingCredentials
            => /\ httpRequests[r].status >= 400
               /\ ~httpRequests[r].handled

\* C19: the step of a send that updates the session raises the receiver's unread
\* counter by exactly 1, leaves the sender's counter unchanged and sets the
\* session's last-message pointer to the new message.
C19_SendIncrementsOthers ==
    [][\A i \in Slots :
          (reqs[i].pc = "updateSession" /\ SendUpdateSession(i)) =>
              LET s == reqs[i].session
              IN  /\ GetUnreadCount(sessions'[s], reqs[i].peer)
                        = GetUnreadCount(sessions[s], reqs[i].peer) + 1
                  /\ GetUnreadCount(sessions'[s], reqs[i].user)
                        = GetUnreadCount(sessions[s], reqs[i].user)
                  /\ sessions'[s].lastMessage = reqs[i].message]_vars

\* C20: a step lowers a participant's unread counter only when it is that
\* participant's own history read, and such a read leaves the counters of the
\* other participants unchanged.
C20_OnlyOwnReadLowers ==
    [][sessions' # sessions =>
          \A s \in SessionIds : \A u \in Users :
              GetUnreadCount(sessions'[s], u) < GetUnreadCount(sessions[s], u) =>
                  /\ \E t \in Users : \E q \in ValidPages :
                          GetChatHistory(u, t, q[1], q[2])
                  /\ \A v \in Users \ {u} :
                          GetUnreadCount(sessions'[s], v) = GetUnreadCount(sessions[s], v)]_vars

\* C21: when a sender issued two messages to one conversation one after the
\* other (the call in the lower slot first) and both are stored, the history of
\* the conversation lists the first before the second.
C21_IssueOrderKept ==
    \A i \in Slots : \A j \in Slots :
        (/\ i < j
         /\ reqs[i].op = "sendMessage" /\ reqs[j].op = "sendMessage"
         /\ reqs[i].user = reqs[j].user /\ reqs[i].peer = reqs[j].peer
         /\ reqs[i].message # 0 /\ reqs[j].message # 0)
            => LET h == History(reqs[i].peer, reqs[i].user, 1, 50)
               IN  \A a \in 1..Len(h) : \A b \in 1..Len(h) :
                       (h[a] = reqs[i].message /\ h[b] = reqs[j].message) => a < b

\* C22: addMember for a user who is already a member does not fail and leaves
\* the member list and the admin set as they were, also when the group is full.
C22_AddExistingMemberNoOp ==
    [][\A g \in GroupIds : \A u \in Users : \A r \in RoleInputs :
          (IsMember(groups[g], u) /\ CallAddMember(g, u, r)) =>
              /\ groupResp'.status = 200
              /\ groups'[g].members = groups[g].members
              /\ groups'[g].admins = groups[g].admins]_vars

\* C23: in every group each member is in the admin set exactly when the member's
\* role is admin or creator, and the admin set holds no user twice.
C23_RoleAndAdminsAgree ==
    \A g \in GroupIds :
        /\ \A k \in 1..Len(groups[g].members) :
               Includes(groups[g].admins, groups[g].members[k].user)
                   <=> groups[g].members[k].role \in {"admin", "creator"}
        /\ \A a \in 1..Len(groups[g].admins) : \A b \in 1..Len(groups[g].admins) :
               groups[g].admins[a] = groups[g].admins[b] => a = b

\* C24: no step changes the content or the edited flag of a message that
\* carries the deleted mark.
C24_DeletedContentImmutable ==
    [][\A m \in RichMessageIds :
          richMessages[m].deleted =>
              /\ richMessages'[m].content = richMessages[m].content
              /\ richMessages'[m].edited = richMessages[m].edited]_vars

\* C25: find-or-create for a pair that already has a session resolves to that
\* session and leaves the stored session as it was, whichever of the two users
\* is named first.
C25_FindOrCreateIdempotent ==
    [][\A i \in Slots : \A p \in PairInputs :
          /\ (/\ FindChatSession(PrivateChatId(p[1], p[2])) # 0
              /\ CreatePrivateSession(i, p[1], p[2]))
                => /\ chatSessions' = chatSessions
                   /\ reqs'[i].session = FindChatSession(PrivateChatId(p[1], p[2]))
          /\ (/\ reqs[i].op = "findOrCreateSession"
              /\ reqs[i].user = p[1] /\ reqs[i].peer = p[2]
              /\ FindOneSession(SortPair(p[1], p[2])) # 0
              /\ FindOrCreateFind(i))
                => /\ sessions' = sessions
                   /\ reqs'[i].session = FindOneSession(SortPair(p[1], p[2]))]_vars

\* C26: once every send has completed (and nobody has read), each participant's
\* unread counter in a session equals the number of messages stored for that
\* participant from the other one.
C26_NoLostIncrements ==
    (\A i \in Slots : reqs[i].pc \in {"idle", "done"}) =>
        \A s \in SessionIds : \A k \in 1..2 :
            LET u == sessions[s].participants[k]
                v == sessions[s].participants[3 - k]
            IN  GetUnreadCount(sessions[s], u)
                    = Cardinality({m \in MessageIds :
                          messages[m].receiver = u /\ messages[m].sender = v})

\* C27: the insert of a send's new session is rejected only when a session for
\* the same pair exists: for a pair without a session it stores the session and
\* the send goes on to store its message.
C27_SessionsWithSeveralPeers ==
    [][\A i \in Slots :
          (/\ reqs[i].op = "sendMessage"
           /\ reqs[i].pc = "saveSession"
           /\ FindOneSession(SortPair(reqs[i].user, reqs[i].peer)) = 0
           /\ FindOrCreateSave(i))
              => /\ Len(sessions') = Len(sessions) + 1
                 /\ sessions'[Len(sessions')].participants
                        = SortPair(reqs[i].user, reqs[i].peer)
                 /\ reqs'[i].pc = "saveMessage"]_vars

\* C28: when no group request is in progress, the users of a group's member list
\* are the users of the participants of its chat session, each listed once.
C28_MembersMatchParticipants ==
    GroupQuiescent =>
        \A g \in GroupIds :
            LET s == FindChatSession(GroupChatId(g))
                members == groups[g].members
                parts == chatSessions[s].participants
            IN  /\ s # 0
                /\ {members[k].user : k \in 1..Len(members)}
                       = {parts[k].user : k \in 1..Len(parts)}
                /\ \A a \in 1..Len(members) : \A b \in 1..Len(members) :
                       members[a].user = members[b].user => a = b
                /\ \A a \in 1..Len(parts) : \A b \in 1..Len(parts) :
                       parts[a].user = parts[b].user => a = b

\* C28 witness: a member was removed from a group that still has two members,
\* and its chat session lists the same two users.
C28_Witness ==
    /\ groupResp = GroupResponse("removeGroupMember", 200)
    /\ \E g \in GroupIds :
          /\ Len(groups[g].members) = 2
          /\ Len(chatSessions[FindChatSession(GroupChatId(g))].participants) = 2

\* C29: in every stored group the member count kept in stats equals the number
\* of entries of the member list.
C29_MemberCountMatches ==
    \A g \in GroupIds : groups[g].memberCount = Len(groups[g].members)

\* C30: when every follow and unfollow request has completed, a user is in
\* another's following list exactly when that other is in the user's followers
\* list, and no list holds an id twice.
C30_FollowGraphSymmetric ==
    (\A i \in Slots : followCalls[i].pc \in {"idle", "done"}) =>
        \A a \in Users : \A b \in Users :
            /\ Includes(following[a], b) <=> Includes(followers[b], a)
            /\ Cardinality({k \in 1..Len(following[a]) : following[a][k] = b}) <= 1
            /\ Cardinality({k \in 1..Len(followers[a]) : followers[a][k] = b}) <= 1

====
